---- MODULE Spec2Model ----
(***************************************************************************)
(* Model of translate_transcript_to_genomic_coords.py: the CIGAR parser,   *)
(* the transcript-to-genome coordinate walk, the registry built from the   *)
(* genome mapping file and the resolution of the query file against it.    *)
(*                                                                         *)
(* Strings are sequences of one-character strings.  Two specifications:    *)
(*   CigarSpec  one CIGAR string and one start offset drawn from bounded   *)
(*              sets, format-checked, parsed, then walked;                 *)
(*   Spec       the whole run: the genome mapping file is read line by     *)
(*              line, the coordinate maps are built, the query file is     *)
(*              read line by line and the output file is written.          *)
(***************************************************************************)
EXTENDS Integers, Sequences, FiniteSets, TLC

\* ------------------------------------------------------------------ bounds
MaxCigarLen == 3
MaxOps == 2
MaxStart == 1
MaxRecords == 2
MaxQueries == 2

\* ------------------------------------------------------------- characters
DigitChars == <<"0", "1", "2", "3", "4", "5", "6", "7", "8", "9">>

UpperChars == <<"A", "B", "C", "D", "E", "F", "G", "H", "I", "J", "K", "L", "M",
                "N", "O", "P", "Q", "R", "S", "T", "U", "V", "W", "X", "Y", "Z">>

LowerChars == <<"a", "b", "c", "d", "e", "f", "g", "h", "i", "j", "k", "l", "m",
                "n", "o", "p", "q", "r", "s", "t", "u", "v", "w", "x", "y", "z">>

Range(s) == {s[i] : i \in DOMAIN s}

\* str.isdigit() on one character
IsDigitChar(c) == c \in Range(DigitChars)

\* str.isalpha() on one character
isalpha(c) == c \in Range(UpperChars) \cup Range(LowerChars)

DigitVal(c) == (CHOOSE i \in DOMAIN DigitChars : DigitChars[i] = c) - 1

\* case folding done by the re.I flag
FoldCase(c) ==
    IF c \in Range(LowerChars)
    THEN UpperChars[CHOOSE i \in DOMAIN LowerChars : LowerChars[i] = c]
    ELSE c

\* str.isdigit(): non-empty and every character a digit
isdigit(s) == Len(s) > 0 /\ \A i \in DOMAIN s : IsDigitChar(s[i])

RECURSIVE DigitsValue(_)
DigitsValue(s) ==
    IF Len(s) = 0 THEN 0
    ELSE 10 * DigitsValue(SubSeq(s, 1, Len(s) - 1)) + DigitVal(s[Len(s)])

\* int(s): an optional sign followed by one or more digits; anything else
\* raises ValueError (ok = FALSE).  The blanks and underscores int() also
\* takes are in none of the alphabets used here.
int(s) ==
    IF isdigit(s) THEN [ok |-> TRUE, val |-> DigitsValue(s)]
    ELSE IF Len(s) > 1 /\ s[1] \in {"-", "+"} /\ isdigit(Tail(s))
         THEN [ok |-> TRUE,
               val |-> IF s[1] = "-" THEN 0 - DigitsValue(Tail(s))
                       ELSE DigitsValue(Tail(s))]
         ELSE [ok |-> FALSE, val |-> 0]

\* ------------------------------------------------------- CIGAR validation
\* the character class [MIDNSHP=X] under re.I
CigarClass(c) == FoldCase(c) \in {"M", "I", "D", "N", "S", "H", "P", "=", "X"}

\* re.search(r'\d+[MIDNSHP=X]', cigar, re.I): some digit directly followed
\* by a character of the class, anywhere in the string
cigar_search(cigar) ==
    \E i \in 1..(Len(cigar) - 1) : IsDigitChar(cigar[i]) /\ CigarClass(cigar[i + 1])

\* --------------------------------------------------- process_cigar_string
\* status "ok": the list is returned; "exit": sys.exit() after "Wrong CIGAR
\* string format"; "error": int() raised ValueError
RECURSIVE cigar_loop(_, _, _, _)
cigar_loop(cigar_string, i, cigar_int, cigar_list) ==
    IF i > Len(cigar_string) THEN [status |-> "ok", cigar_list |-> cigar_list]
    ELSE LET cigar_char == cigar_string[i] IN
         IF ~(isalpha(cigar_char) \/ cigar_char = "=")
         THEN cigar_loop(cigar_string, i + 1, Append(cigar_int, cigar_char), cigar_list)
         ELSE IF cigar_int = <<>>
              THEN [status |-> "exit", cigar_list |-> <<>>]
              ELSE IF ~int(cigar_int).ok
                   THEN [status |-> "error", cigar_list |-> <<>>]
                   ELSE cigar_loop(cigar_string, i + 1, <<>>,
                                   Append(cigar_list, <<int(cigar_int).val, cigar_char>>))

process_cigar_string(cigar_string) == cigar_loop(cigar_string, 1, <<>>, <<>>)

\* --------------------------------------------------- generate_genomic_dict
\* genomic_dict[tr_idx] = chr_idx: a dict assignment adds or overwrites a key
DictSet(d, k, v) == (k :> v) @@ d

EmptyDict == <<>>

\* len(range(cigar_int)): the number of passes of "for idx in range(cigar_int)",
\* none when cigar_int <= 0
range_len(cigar_int) == IF cigar_int > 0 THEN cigar_int ELSE 0

\* loop_both with "chr_idx += 1" left out of the loop body
loop_both_without_advance(w, cigar_int) ==
    LET n == range_len(cigar_int) IN
    [genomic_dict |->
         [t \in w.tr_idx..(w.tr_idx + n - 1) |-> w.chr_idx] @@ w.genomic_dict,
     tr_idx |-> w.tr_idx + n,
     chr_idx |-> w.chr_idx]

\* the loop under re.match(r'[M=X]', ...): pass idx stores
\* genomic_dict[tr_idx + idx] = chr_idx + idx, both taken at the loop's entry
loop_both(w, cigar_int) ==
    LET n == range_len(cigar_int) IN
    [genomic_dict |->
         [t \in w.tr_idx..(w.tr_idx + n - 1) |-> w.chr_idx + (t - w.tr_idx)]
             @@ w.genomic_dict,
     tr_idx |-> w.tr_idx + n,
     chr_idx |-> w.chr_idx + n]

\* the loop under re.match(r'[DN]', ...)
loop_reference(w, cigar_int) ==
    [w EXCEPT !.chr_idx = w.chr_idx + range_len(cigar_int)]

\* the loop under re.match(r'[IS]', ...)
loop_query(w, cigar_int) ==
    [w EXCEPT !.tr_idx = w.tr_idx + range_len(cigar_int)]

\* the if / elif / elif of the loop over cigar_arr; re.match is given re.I
cigar_entry(w, entry) ==
    LET cigar_int == entry[1]
        cigar_char == FoldCase(entry[2])
    IN  IF cigar_char \in {"M", "=", "X"} THEN loop_both(w, cigar_int)
        ELSE IF cigar_char \in {"D", "N"} THEN loop_reference(w, cigar_int)
        ELSE IF cigar_char \in {"I", "S"} THEN loop_query(w, cigar_int)
        ELSE w

RECURSIVE cigar_walk(_, _, _)
cigar_walk(w, cigar_arr, k) ==
    IF k > Len(cigar_arr) THEN w
    ELSE cigar_walk(cigar_entry(w, cigar_arr[k]), cigar_arr, k + 1)

\* the locals of generate_genomic_dict when its loop ends
walk_locals(chr_start_coord, cigar_arr) ==
    cigar_walk([genomic_dict |-> EmptyDict, tr_idx |-> 0, chr_idx |-> chr_start_coord],
               cigar_arr, 1)

generate_genomic_dict(chr_start_coord, cigar_arr) ==
    walk_locals(chr_start_coord, cigar_arr).genomic_dict

\* ------------------------------------------------------------------ state
VARIABLES
    phase,            \* CigarSpec: "input", "parsed", "mapped" or "aborted"
    cigar_string,     \* CigarSpec: the CIGAR field under test
    chr_start_coord,  \* CigarSpec: the start offset under test
    cigar_list,       \* CigarSpec: what process_cigar_string returned
    walk,             \* CigarSpec: generate_genomic_dict's locals at its return
    pc,               \* Spec: "build", "query", "done" or "aborted"
    genome_map,       \* Spec: the lines of the genome mapping file read so far
    transcript_to_genomic_dict,  \* Spec: transcript -> [chr, start_coord, cigar] entries
    coord_map,        \* Spec: transcript -> [chr, genomic_dict] entries
    transcript_processing_file,  \* Spec: the lines of the query file read so far
    output_file,      \* Spec: the lines written to the output file
    printed           \* Spec: the messages printed, one record per print call

cigar_vars == <<phase, cigar_string, chr_start_coord, cigar_list, walk>>

run_vars == <<pc, genome_map, transcript_to_genomic_dict, coord_map,
              transcript_processing_file, output_file, printed>>

vars == <<phase, cigar_string, chr_start_coord, cigar_list, walk,
          pc, genome_map, transcript_to_genomic_dict, coord_map,
          transcript_processing_file, output_file, printed>>

NoWalk == [genomic_dict |-> EmptyDict, tr_idx |-> 0, chr_idx |-> 0]

CigarIdle ==
    /\ phase = "idle"
    /\ cigar_string = <<>>
    /\ chr_start_coord = 0
    /\ cigar_list = <<>>
    /\ walk = NoWalk

RunIdle ==
    /\ pc = "idle"
    /\ genome_map = <<>>
    /\ transcript_to_genomic_dict = EmptyDict
    /\ coord_map = EmptyDict
    /\ transcript_processing_file = <<>>
    /\ output_file = <<>>
    /\ printed = <<>>

\* ------------------------------------------------------------- CigarSpec
\* one character of each kind the code tells apart: digits, a sign, the three
\* cursor classes (one in lower case), a no-op operator, '=', and a letter
\* outside the CIGAR alphabet
CigarAlphabet == {"0", "1", "2", "-", "M", "x", "D", "I", "H", "=", "Q"}

\* the strings made of n (length, operator) pairs
LengthTokens == {<<"0">>, <<"1">>, <<"2">>, <<"-", "1">>}

OperatorChars == {"M", "x", "=", "D", "n", "I", "S", "H", "Q"}

RECURSIVE PairStrings(_)
PairStrings(n) ==
    IF n = 0 THEN {<<>>}
    ELSE {s \o l \o <<o>> : s \in PairStrings(n - 1), l \in LengthTokens, o \in OperatorChars}

ExampleCigar ==
    <<"8", "M", "7", "D", "6", "M", "2", "I", "2", "M", "1", "1", "D", "7", "M">>

ExampleStart == 3

\* further strings: the other operators, '=', and lengths of two digits
ExtraCigars ==
    {ExampleCigar,
     <<"-", "1", "D", "1", "M">>,
     <<"1", "m", "1", "n", "1", "S", "1", "=">>,
     <<"1", "0", "M", "2", "P", "1", "X">>,
     <<"1", "=", "2", "H", "1", "N", "1", "X">>,
     <<"2", "h", "1", "M", "1", "s", "1", "=">>,
     <<"1", "M", "=">>,
     <<"=", "1", "M">>,
     <<"8", "M", "X">>,
     <<"8", "Q">>,
     <<"8", "M", "3", "Q">>,
     <<"0", "=">>,
     <<"1", "M", "1", "p", "1", "d", "1", "x">>}

\* every string of up to MaxCigarLen characters, every string of up to MaxOps
\* pairs, and the further strings
CigarStrings ==
    UNION {[1..n -> CigarAlphabet] : n \in 0..MaxCigarLen}
        \cup UNION {PairStrings(n) : n \in 0..MaxOps}
        \cup ExtraCigars

CigarInit ==
    /\ phase = "input"
    /\ cigar_string \in CigarStrings
    /\ chr_start_coord \in 0..MaxStart \cup {ExampleStart}
    /\ cigar_list = <<>>
    /\ walk = NoWalk
    /\ RunIdle

\* the CIGAR test of check_genome_map_line_format, then process_cigar_string
CheckAndParse ==
    /\ phase = "input"
    /\ LET r == process_cigar_string(cigar_string) IN
       IF cigar_search(cigar_string) /\ r.status = "ok"
       THEN phase' = "parsed" /\ cigar_list' = r.cigar_list
       ELSE phase' = "aborted" /\ cigar_list' = <<>>
    /\ UNCHANGED <<cigar_string, chr_start_coord, walk>>
    /\ UNCHANGED run_vars

Generate ==
    /\ phase = "parsed"
    /\ walk' = walk_locals(chr_start_coord, cigar_list)
    /\ phase' = "mapped"
    /\ UNCHANGED <<cigar_string, chr_start_coord, cigar_list>>
    /\ UNCHANGED run_vars

CigarNext == CheckAndParse \/ Generate

CigarSpec == CigarInit /\ [][CigarNext]_vars

\* ------------------------------------------------------------------ Spec
\* str(n) of an integer: its decimal numeral
RECURSIVE NatStr(_)
NatStr(n) ==
    IF n < 10 THEN <<DigitChars[n + 1]>>
    ELSE Append(NatStr(n \div 10), DigitChars[(n % 10) + 1])

str(n) == IF n < 0 THEN <<"-">> \o NatStr(0 - n) ELSE NatStr(n)

\* check_genome_map_line_format with the column test written "< 4"
check_genome_map_line_format_at_least(genome_map_line_arr) ==
    IF Len(genome_map_line_arr) < 4
    THEN "Error! Genome mapping file must have 4 columns"
    ELSE IF ~isdigit(genome_map_line_arr[3])
    THEN "Error! Reference coordinate is invalid"
    ELSE IF ~cigar_search(genome_map_line_arr[4])
    THEN "Error! CIGAR string contains invalid characters"
    ELSE "ok"

\* "ok", or the error printed before sys.exit()
check_genome_map_line_format(genome_map_line_arr) ==
    IF Len(genome_map_line_arr) # 4
    THEN "Error! Genome mapping file must have 4 columns"
    ELSE IF ~isdigit(genome_map_line_arr[3])
    THEN "Error! Reference coordinate is invalid"
    ELSE IF ~cigar_search(genome_map_line_arr[4])
    THEN "Error! CIGAR string contains invalid characters"
    ELSE "ok"

\* store_alignment that leaves a (transcript, chromosome) pair already stored
\* as it is
store_alignment_keep_first(dict, transcript_id, chr_num, start_coord, cigar) ==
    IF transcript_id \in DOMAIN dict
       /\ \E n \in DOMAIN dict[transcript_id] : dict[transcript_id][n].chr = chr_num
    THEN dict
    ELSE DictSet(dict, transcript_id,
                 <<[chr |-> chr_num, start_coord |-> start_coord, cigar |-> cigar]>>)

\* the four assignments that end the loop body of create_transcript_genomic_dict:
\* the transcript's dict is replaced by a new one holding this chromosome alone
store_alignment(dict, transcript_id, chr_num, start_coord, cigar) ==
    DictSet(dict, transcript_id,
            <<[chr |-> chr_num, start_coord |-> start_coord, cigar |-> cigar]>>)

\* coord_map[tr][ch] = generate_genomic_dict(start_coord, cigar_vec), for every
\* transcript and each of its chromosomes in insertion order
map_coordinates(dict) ==
    [tr \in DOMAIN dict |->
        [n \in DOMAIN dict[tr] |->
            [chr |-> dict[tr][n].chr,
             genomic_dict |->
                 generate_genomic_dict(dict[tr][n].start_coord, dict[tr][n].cigar)]]]

\* "ok", or the error printed before sys.exit()
check_transcript_line_format(transcript_line_arr) ==
    IF Len(transcript_line_arr) # 2
    THEN "Error! Transcript Processing File must contain 2 columns"
    ELSE IF ~isdigit(transcript_line_arr[2])
    THEN "Error! Transcript coordinates must be integers"
    ELSE "ok"

\* unknown_transcript with sys.exit() in place of continue
unknown_transcript_exit(tr_id) ==
    [status |-> "aborted",
     written |-> <<>>,
     printed |-> <<[msg |-> "does not exist in genome mapping file", tr_id |-> tr_id]>>]

\* the transcript id is not in coord_map: one message, then continue
unknown_transcript(tr_id) ==
    [status |-> "continue",
     written |-> <<>>,
     printed |-> <<[msg |-> "does not exist in genome mapping file", tr_id |-> tr_id]>>]

\* resolve_chromosome reading the query coordinate as 1-based
resolve_chromosome_one_based(tr_id, tr_coord, entry) ==
    IF ~((int(tr_coord).val - 1) \in DOMAIN entry.genomic_dict)
    THEN [written |-> <<>>,
          printed |-> <<[msg |-> "Transcript coordinate does not exist",
                         tr_id |-> tr_id, tr_coord |-> tr_coord]>>]
    ELSE [written |-> <<<<tr_id, tr_coord, entry.chr,
                          str(entry.genomic_dict[int(tr_coord).val - 1])>>>>,
          printed |-> <<>>]

\* the body of "for ch in coord_map[tr_id]" for one chromosome: a message and
\* continue when int(tr_coord) is not a key, else one output line
resolve_chromosome(tr_id, tr_coord, entry) ==
    IF ~(int(tr_coord).val \in DOMAIN entry.genomic_dict)
    THEN [written |-> <<>>,
          printed |-> <<[msg |-> "Transcript coordinate does not exist",
                         tr_id |-> tr_id, tr_coord |-> tr_coord]>>]
    ELSE [written |-> <<<<tr_id, tr_coord, entry.chr,
                          str(entry.genomic_dict[int(tr_coord).val])>>>>,
          printed |-> <<>>]

RECURSIVE resolve_loop(_, _, _, _)
resolve_loop(tr_id, tr_coord, entries, n) ==
    IF n = 0 THEN [written |-> <<>>, printed |-> <<>>]
    ELSE LET before == resolve_loop(tr_id, tr_coord, entries, n - 1)
             this == resolve_chromosome(tr_id, tr_coord, entries[n])
         IN  [written |-> before.written \o this.written,
              printed |-> before.printed \o this.printed]

\* one pass of the loop of merge_transcript_file over the query file
merge_line(queries, cm) ==
    IF check_transcript_line_format(queries) # "ok"
    THEN [status |-> "aborted",
          written |-> <<>>,
          printed |-> <<[msg |-> check_transcript_line_format(queries)]>>]
    ELSE IF ~(queries[1] \in DOMAIN cm)
    THEN unknown_transcript(queries[1])
    ELSE LET r == resolve_loop(queries[1], queries[2], cm[queries[1]],
                               Len(cm[queries[1]]))
         IN  [status |-> "continue", written |-> r.written, printed |-> r.printed]

\* the fields of the lines the run is given; <<<<>>>> is a blank line, which
\* re.split turns into one empty field
TR1 == <<"T", "1">>
TR2 == <<"T", "2">>
TR9 == <<"T", "9">>
CHR1 == <<"C", "1">>
CHR2 == <<"C", "2">>

\* start and CIGAR: 2M from 0 maps 0,1 to 0,1; 1M1I1D1M from 3 maps 0 to 3 and
\* 2 to 5, with offset 1 inside the insertion
Alignments ==
    {<<<<"0">>, <<"2", "M">>>>,
     <<<<"3">>, <<"1", "M", "1", "I", "1", "D", "1", "M">>>>}

ValidRows == {<<t, c, a[1], a[2]>> : t \in {TR1, TR2}, c \in {CHR1, CHR2}, a \in Alignments}

InvalidRows ==
    {<<<<>>>>,
     <<TR1, CHR1, <<"0">>>>,
     <<TR1, CHR2, <<"0">>, <<"2", "M">>, <<"x">>>>,
     <<TR2, CHR1, <<"-", "1">>, <<"2", "M">>>>,
     <<TR2, CHR2, <<"0">>, <<"2", "Q">>>>,
     <<TR1, CHR1, <<"0">>, <<"M", "2", "M">>>>}

GenomeMapRows == ValidRows \cup InvalidRows

QueryRows ==
    {<<t, c>> : t \in {TR1, TR2, TR9}, c \in {<<"1">>, <<"0", "2">>}}
        \cup {<<TR1>>, <<TR1, <<"x">>>>}

Init ==
    /\ pc = "build"
    /\ genome_map = <<>>
    /\ transcript_to_genomic_dict = EmptyDict
    /\ coord_map = EmptyDict
    /\ transcript_processing_file = <<>>
    /\ output_file = <<>>
    /\ printed = <<>>
    /\ CigarIdle

\* one pass of the loop of create_transcript_genomic_dict over the file; when
\* the pass ends in sys.exit() or an exception the process is gone, and the
\* dict is left as the last completed pass made it
ReadGenomeMapLine(rows) ==
    /\ pc = "build"
    /\ Len(genome_map) < MaxRecords
    /\ genome_map' = Append(genome_map, rows)
    /\ IF check_genome_map_line_format(rows) # "ok"
       THEN /\ pc' = "aborted"
            /\ printed' = Append(printed, [msg |-> check_genome_map_line_format(rows)])
            /\ UNCHANGED transcript_to_genomic_dict
       ELSE LET cigar == process_cigar_string(rows[4]) IN
            IF cigar.status # "ok" \/ ~int(rows[3]).ok
            THEN /\ pc' = "aborted"
                 /\ printed' = IF cigar.status = "exit"
                               THEN Append(printed, [msg |-> "Error! Wrong CIGAR string format"])
                               ELSE printed
                 /\ UNCHANGED transcript_to_genomic_dict
            ELSE /\ pc' = "build"
                 /\ transcript_to_genomic_dict' =
                        store_alignment(transcript_to_genomic_dict, rows[1], rows[2],
                                        int(rows[3]).val, cigar.cigar_list)
                 /\ UNCHANGED printed
    /\ UNCHANGED <<coord_map, transcript_processing_file, output_file>>
    /\ UNCHANGED cigar_vars

\* the genome mapping file ends: the dict is returned and map_coordinates runs
MapCoordinates ==
    /\ pc = "build"
    /\ coord_map' = map_coordinates(transcript_to_genomic_dict)
    /\ pc' = "query"
    /\ UNCHANGED <<genome_map, transcript_to_genomic_dict, transcript_processing_file,
                   output_file, printed>>
    /\ UNCHANGED cigar_vars

\* one pass of the loop of merge_transcript_file over the query file
ReadQueryLine(queries) ==
    /\ pc = "query"
    /\ Len(transcript_processing_file) < MaxQueries
    /\ transcript_processing_file' = Append(transcript_processing_file, queries)
    /\ LET r == merge_line(queries, coord_map) IN
       /\ pc' = IF r.status = "aborted" THEN "aborted" ELSE "query"
       /\ output_file' = output_file \o r.written
       /\ printed' = printed \o r.printed
    /\ UNCHANGED <<genome_map, transcript_to_genomic_dict, coord_map>>
    /\ UNCHANGED cigar_vars

\* the query file ends: both files are closed
CloseFiles ==
    /\ pc = "query"
    /\ pc' = "done"
    /\ UNCHANGED <<genome_map, transcript_to_genomic_dict, coord_map,
                   transcript_processing_file, output_file, printed>>
    /\ UNCHANGED cigar_vars

Next ==
    \/ \E rows \in GenomeMapRows : ReadGenomeMapLine(rows)
    \/ MapCoordinates
    \/ \E queries \in QueryRows : ReadQueryLine(queries)
    \/ CloseFiles

Spec == Init /\ [][Next]_vars

\* ------------------------------------------------- claims under CigarSpec
\* the set of (key, value) pairs of a dict
Pairs(d) == {<<k, d[k]>> : k \in DOMAIN d}

ConsumesBoth(c) == FoldCase(c) \in {"M", "=", "X"}
ConsumesReference(c) == FoldCase(c) \in {"D", "N"}
ConsumesQuery(c) == FoldCase(c) \in {"I", "S"}

\* "n times": no times at all when n is not positive
Times(n) == IF n > 0 THEN n ELSE 0

\* the transcript cursor stated after the first k operations: M/=/X of length n
\* advances it by 1, n times; I/S of length n advances it by n
RECURSIVE StatedTranscriptCursor(_, _)
StatedTranscriptCursor(ops, k) ==
    IF k = 0 THEN 0
    ELSE StatedTranscriptCursor(ops, k - 1)
         + (IF ConsumesBoth(ops[k][2]) THEN Times(ops[k][1])
            ELSE IF ConsumesQuery(ops[k][2]) THEN ops[k][1]
            ELSE 0)

\* the genomic cursor stated after the first k operations: M/=/X of length n
\* advances it by 1, n times; D/N of length n advances it by n
RECURSIVE StatedGenomicCursor(_, _, _)
StatedGenomicCursor(start, ops, k) ==
    IF k = 0 THEN start
    ELSE StatedGenomicCursor(start, ops, k - 1)
         + (IF ConsumesBoth(ops[k][2]) THEN Times(ops[k][1])
            ELSE IF ConsumesReference(ops[k][2]) THEN ops[k][1]
            ELSE 0)

\* the reference length of the first k operations: the lengths of the M/=/X
\* and D/N operations among them, summed
RECURSIVE StatedReferenceLength(_, _)
StatedReferenceLength(ops, k) ==
    IF k = 0 THEN 0
    ELSE StatedReferenceLength(ops, k - 1)
         + (IF ConsumesBoth(ops[k][2]) \/ ConsumesReference(ops[k][2]) THEN ops[k][1] ELSE 0)

\* the entries stated for the map: operation k, if M/=/X of length n, records
\* the genomic cursor as the image of the transcript cursor n times, starting
\* from the cursors stated before it
StatedPairs(start, ops) ==
    UNION {IF ConsumesBoth(ops[k][2])
           THEN {<<StatedTranscriptCursor(ops, k - 1) + j,
                   StatedGenomicCursor(start, ops, k - 1) + j>> : j \in 0..(ops[k][1] - 1)}
           ELSE {} : k \in DOMAIN ops}

ExampleMap ==
    [t \in 0..7 |-> t + 3] @@ [t \in 8..13 |-> t + 10]
        @@ [t \in 16..17 |-> t + 8] @@ [t \in 18..24 |-> t + 19]

\* C1: for every start offset and every parsed CIGAR sequence the walk leaves
\* the map and the cursors the specification states: M/=/X of length n records
\* n consecutive images and advances both cursors by n, D/N advances only the
\* genomic cursor by n, I/S only the transcript cursor by n; and the example
\* 8M7D6M2I2M11D7M from start 3 gives 0-7 -> 3-10, 8-13 -> 18-23, 16-17 ->
\* 24-25, 18-24 -> 37-43 with 14-15 absent.
C1_WalkAsStated ==
    phase = "mapped" =>
        /\ Pairs(walk.genomic_dict) = StatedPairs(chr_start_coord, cigar_list)
        /\ walk.tr_idx = StatedTranscriptCursor(cigar_list, Len(cigar_list))
        /\ walk.chr_idx = StatedGenomicCursor(chr_start_coord, cigar_list, Len(cigar_list))
        /\ (cigar_string = ExampleCigar /\ chr_start_coord = ExampleStart
              => walk.genomic_dict = ExampleMap)

NaturalLengths == \A k \in DOMAIN cigar_list : cigar_list[k][1] >= 0

\* the walk is as stated whenever no parsed length is negative
WalkAsStatedForNaturalLengths == NaturalLengths => C1_WalkAsStated

ExampleWalked ==
    phase = "mapped" /\ cigar_string = ExampleCigar /\ chr_start_coord = ExampleStart

\* a non-digit character with an empty digit buffer before it, or outside the
\* alphabet {M,I,D,N,S,H,P,=,X} in either case
Malformed(s) ==
    \E i \in DOMAIN s :
        /\ ~IsDigitChar(s[i])
        /\ \/ ~CigarClass(s[i])
           \/ i = 1
           \/ ~IsDigitChar(s[i - 1])

\* C4: a CIGAR string with a non-digit character that has no digits before it
\* or is outside the operation alphabet, at any position, is never accepted:
\* the run aborts instead of producing an operation sequence.
C4_MalformedCigarAborts ==
    (phase # "input" /\ Malformed(cigar_string)) => phase = "aborted"

\* C7: every operation of an accepted CIGAR string has length >= 1.
C7_LengthsPositive ==
    phase \in {"parsed", "mapped"} => \A k \in DOMAIN cigar_list : cigar_list[k][1] >= 1

\* C8: the map returned by generate_genomic_dict is strictly increasing: for
\* any two keys i < j, map[i] < map[j].
C8_Monotonic ==
    phase = "mapped" =>
        \A i, j \in DOMAIN walk.genomic_dict :
            i < j => walk.genomic_dict[i] < walk.genomic_dict[j]

\* a walked map with a skipped transcript offset and a skipped genomic offset
C8_Witness ==
    /\ phase = "mapped"
    /\ \E i, j \in DOMAIN walk.genomic_dict :
           /\ i < j
           /\ walk.genomic_dict[j] - walk.genomic_dict[i] > j - i
    /\ \E i, j \in DOMAIN walk.genomic_dict :
           /\ i < j
           /\ walk.genomic_dict[j] - walk.genomic_dict[i] < j - i

\* C9: the genomic cursor at the end of the walk, minus start, is the sum of
\* the lengths of the M, =, X, D and N operations the parser produced.
C9_ReferenceLength ==
    phase = "mapped" =>
        walk.chr_idx - chr_start_coord
            = StatedReferenceLength(cigar_list, Len(cigar_list))

\* ------------------------------------------------------ claims under Spec
\* a numeral of a non-negative integer: one or more decimal digits
Numeral(s) == Len(s) > 0 /\ \A i \in DOMAIN s : s[i] \in Range(DigitChars)

\* the run stopped while it was reading the genome mapping file
BuildAborted == pc = "aborted" /\ transcript_processing_file = <<>>

BuildDone == pc \in {"query", "done"} \/ (pc = "aborted" /\ ~BuildAborted)

\* the records the build took in: every line read but the one it stopped at
Accepted ==
    {i \in DOMAIN genome_map : ~(BuildAborted /\ i = Len(genome_map))}

HasEntry(t, c) ==
    t \in DOMAIN coord_map /\ \E n \in DOMAIN coord_map[t] : coord_map[t][n].chr = c

\* C2: after the build the registry holds an entry for every (transcript,
\* chromosome) pair seen in the records: no chromosome of a transcript is lost
\* when a later record names the same transcript.
C2_EveryPairRetained ==
    BuildDone =>
        \A i \in Accepted : HasEntry(genome_map[i][1], genome_map[i][2])

\* the last accepted record for a pair
LastFor(t, c) ==
    LET same == {i \in Accepted : genome_map[i][1] = t /\ genome_map[i][2] = c}
    IN  CHOOSE i \in same : \A j \in same : j <= i

QueryRead == transcript_processing_file' # transcript_processing_file

LastQuery == transcript_processing_file'[Len(transcript_processing_file')]

WellFormedQuery(q) == Len(q) = 2 /\ Numeral(q[2])

NewLines == SubSeq(output_file', Len(output_file) + 1, Len(output_file'))

NewPrinted == SubSeq(printed', Len(printed) + 1, Len(printed'))

\* C3: for a well-formed query of a registered transcript and each chromosome
\* registered under it, one output tuple (transcript, coordinate, chromosome,
\* genomic coordinate) is written if and only if the coordinate is a key of the
\* chromosome's map, with the map's value at that key; otherwise no tuple is
\* written for the chromosome, a message is printed instead, and the run goes on.
C3_Resolution ==
    [][(QueryRead /\ WellFormedQuery(LastQuery) /\ LastQuery[1] \in DOMAIN coord_map) =>
          LET q == LastQuery
              x == DigitsValue(q[2])
              entries == coord_map[q[1]]
              mapped == {n \in DOMAIN entries : x \in DOMAIN entries[n].genomic_dict}
          IN  /\ SubSeq(output_file', 1, Len(output_file)) = output_file
              /\ SubSeq(printed', 1, Len(printed)) = printed
              /\ Len(NewLines) = Cardinality(mapped)
              /\ \A n \in DOMAIN entries :
                     IF n \in mapped
                     THEN \E k \in DOMAIN NewLines :
                              NewLines[k] = <<q[1], q[2], entries[n].chr,
                                              str(entries[n].genomic_dict[x])>>
                     ELSE \A k \in DOMAIN NewLines : NewLines[k][3] # entries[n].chr
              /\ Len(NewPrinted) = Cardinality(DOMAIN entries \ mapped)
              /\ \A k \in DOMAIN NewPrinted :
                     NewPrinted[k] = [msg |-> "Transcript coordinate does not exist",
                                      tr_id |-> q[1], tr_coord |-> q[2]]
              /\ pc' = "query"]_vars

\* a run that wrote a tuple for one query and printed the message for another
C3_Witness ==
    /\ pc = "query"
    /\ output_file # <<>>
    /\ \E k \in DOMAIN printed : printed[k].msg = "Transcript coordinate does not exist"

\* C6: a well-formed query whose transcript is not in the registry gives one
\* message and no output tuple, and the run goes on to the queries after it.
C6_UnknownTranscript ==
    [][(QueryRead /\ WellFormedQuery(LastQuery) /\ ~(LastQuery[1] \in DOMAIN coord_map)) =>
          /\ output_file' = output_file
          /\ printed' = Append(printed, [msg |-> "does not exist in genome mapping file",
                                        tr_id |-> LastQuery[1]])
          /\ pc' = "query"]_vars

\* a query of an unregistered transcript, and a later query that was resolved
C6_Witness ==
    /\ Len(transcript_processing_file) = 2
    /\ coord_map # EmptyDict
    /\ ~(transcript_processing_file[1][1] \in DOMAIN coord_map)
    /\ Len(output_file) = 1
    /\ output_file[1][1] = transcript_processing_file[2][1]

InvalidRecord(r) == Len(r) # 4 \/ ~Numeral(r[3])

\* C10: a record whose field count is not 4 or whose start is not a numeral of
\* a non-negative integer stops the run at that record, during the build: no
\* query is read and no output tuple is written, however many valid records
\* came before it.
C10_InvalidRecordAborts ==
    \A i \in DOMAIN genome_map :
        InvalidRecord(genome_map[i]) =>
            /\ pc = "aborted"
            /\ i = Len(genome_map)
            /\ transcript_processing_file = <<>>
            /\ output_file = <<>>

\* the run stopped at an invalid record that followed a valid one
C10_Witness ==
    /\ pc = "aborted"
    /\ Len(genome_map) = 2
    /\ InvalidRecord(genome_map[2])
    /\ transcript_to_genomic_dict # EmptyDict

====
